---- MODULE Spec2Model ----
(***************************************************************************)
(* A model of monai/metrics/rocauc.py: _calculate (the pairwise ROC AUC    *)
(* of one binary problem) and compute_roc_auc (preprocessing, per-class    *)
(* computation and averaging).                                             *)
(*                                                                         *)
(* Representation.                                                         *)
(*  - A tensor is a record [shape, data]; data is a sequence (rank 1) or   *)
(*    a sequence of rows (rank 2).                                         *)
(*  - A score is an integer.  The code only ever applies > and == to       *)
(*    scores (compare, lines 27-33), so a score stands for the float of    *)
(*    the same value, and sigmoid/softmax results are fixed-point codes    *)
(*    that keep the order and the collisions of the float32 results.       *)
(*  - An AUC value is a reduced fraction <<num, den>>: the float64         *)
(*    quotient auc / (|pos| * |neg|) is determined by the fraction.        *)
(*  - Python exceptions are named as the specification names them:         *)
(*      ValueError('add_softmax=True and add_sigmoid=True ...')            *)
(*                                    -> "ConflictingTransformError"       *)
(*      ValueError('predictions/targets should be of shape ...')           *)
(*                                    -> "ShapeError"                      *)
(*      ValueError('labels should be binary values.')                      *)
(*                                    -> "InvalidLabelError"               *)
(*      ValueError('unsupported average method.')                          *)
(*                                    -> "UnsupportedAverageError"         *)
(*      ZeroDivisionError of line 36  -> "UndefinedAUCError"               *)
(*      ZeroDivisionError of np.average (weights sum to zero)              *)
(*                                    -> "ZeroWeightError"                 *)
(***************************************************************************)
EXTENDS Integers, Sequences, FiniteSets, TLC

\* ------------------------------------------------------------- bounds

\* Largest batch of a single-channel (rank-1 after squeezing) call, in the
\* specification of the single-channel calls and in the one of all calls.
MaxBatch == 3
SmallBatch == 2
\* Largest number of entries (batch * n_classes) of a multi-class score
\* matrix: with labels that are all binary, and with any labels.
MaxCells == 6
SmallCells == 4

\* x.float().sigmoid() is 1.0 in float32 for every x >= 17 (exp(-17) is below
\* half an ulp of 1.0); below that it is strictly increasing on the integers.
SigmoidSaturation == 17

\* ------------------------------------------------------------ numbers

RECURSIVE GCD(_, _)
GCD(a, b) == IF b = 0 THEN a ELSE GCD(b, a % b)

\* The fraction n/d (d > 0, n >= 0), reduced.
Rat(n, d) == LET g == GCD(n, d) IN <<n \div g, d \div g>>

RatAdd(a, b) == Rat(a[1] * b[2] + b[1] * a[2], a[2] * b[2])
RatScale(a, k) == Rat(a[1] * k, a[2])
RatDiv(a, k) == Rat(a[1], a[2] * k)

RECURSIVE RatSum(_)
RatSum(s) == IF s = <<>> THEN <<0, 1>> ELSE RatAdd(Head(s), RatSum(Tail(s)))

RECURSIVE IntSum(_)
IntSum(s) == IF s = <<>> THEN 0 ELSE Head(s) + IntSum(Tail(s))

SeqMax(s) == CHOOSE m \in {s[i] : i \in DOMAIN s} : \A i \in DOMAIN s : s[i] <= m

\* ------------------------------------------------------------ tensors

Tensor1(v) == [shape |-> <<Len(v)>>, data |-> v]
Tensor2(m, n) == [shape |-> <<Len(m), n>>, data |-> m]
\* A (batch, 1) tensor holding the vector v.
Column(v) == Tensor2([i \in DOMAIN v |-> <<v[i]>>], 1)
\* A rank-3 tensor: what the rank check rejects.
Rank3 == [shape |-> <<1, 1, 1>>, data |-> << << <<0>> >> >>]

ndimension(t) == Len(t.shape)

\* t.squeeze(dim=-1) of a (batch, 1) tensor.
squeeze(t) == [shape |-> <<t.shape[1]>>,
               data |-> [i \in 1 .. t.shape[1] |-> t.data[i][1]]]

\* t.transpose(0, 1) of a rank-2 tensor.
transpose(t) ==
    [shape |-> <<t.shape[2], t.shape[1]>>,
     data |-> [c \in 1 .. t.shape[2] |-> [r \in 1 .. t.shape[1] |-> t.data[r][c]]]]

\* flat(x): [i for k in x for i in k].
RECURSIVE flat(_)
flat(x) == IF x = <<>> THEN <<>> ELSE Head(x) \o flat(Tail(x))

\* float32 sigmoid of an integer score, as an order code: strictly increasing
\* below the saturation point, constant (1.0) from it on.
SigmoidCode(x) == IF x >= SigmoidSaturation THEN SigmoidSaturation ELSE x

\* y_pred.float().sigmoid(), elementwise on a rank-1 or rank-2 tensor.
sigmoid(t) ==
    [t EXCEPT !.data =
        IF ndimension(t) = 1
        THEN [i \in DOMAIN t.data |-> SigmoidCode(t.data[i])]
        ELSE [r \in DOMAIN t.data |->
                 [c \in DOMAIN t.data[r] |-> SigmoidCode(t.data[r][c])]]]

\* exp(-k) in fixed point (three decimals), 0 once it underflows.
ExpTable == <<1000, 368, 135, 50, 18, 7, 2, 1>>
ExpNeg(k) == IF k < Len(ExpTable) THEN ExpTable[k + 1] ELSE 0

\* softmax of one row, computed as the library does: exp(x - max) over the
\* sum of the row's exp(x - max); the result in fixed point (six decimals).
SoftmaxRow(row) ==
    LET m == SeqMax(row)
        e == [c \in DOMAIN row |-> ExpNeg(m - row[c])]
        total == IntSum(e)
    IN  [c \in DOMAIN row |-> (e[c] * 1000000) \div total]

\* y_pred.float().softmax(dim=1).
softmax(t) == [t EXCEPT !.data = [r \in DOMAIN t.data |-> SoftmaxRow(t.data[r])]]

\* one_hot(y, n_classes) of monai.networks.utils: one indicator column per
\* class index, for y of shape (batch,) or (batch, 1).
one_hot(t, n_classes) ==
    LET v == IF ndimension(t) = 2 THEN squeeze(t).data ELSE t.data
    IN  Tensor2([i \in DOMAIN v |->
                    [c \in 1 .. n_classes |-> IF v[i] = c - 1 THEN 1 ELSE 0]],
                n_classes)

\* ---------------------------------------------------------- _calculate

\* A faulty partition: every label that is not 1 counts as a negative.
RECURSIVE PartitionLenient(_, _, _, _)
PartitionLenient(y, index, pos_indexes, neg_indexes) ==
    IF index > Len(y)
    THEN [raised |-> "none", pos |-> pos_indexes, neg |-> neg_indexes]
    ELSE IF y[index] = 1
         THEN PartitionLenient(y, index + 1, Append(pos_indexes, index), neg_indexes)
         ELSE PartitionLenient(y, index + 1, pos_indexes, Append(neg_indexes, index))

\* Lines 18-25: the index partition.  The first label that is neither 1 nor
\* 0 raises; the labels after it are never looked at.
RECURSIVE Partition(_, _, _, _)
Partition(y, index, pos_indexes, neg_indexes) ==
    IF index > Len(y)
    THEN [raised |-> "none", pos |-> pos_indexes, neg |-> neg_indexes]
    ELSE IF y[index] = 1
         THEN Partition(y, index + 1, Append(pos_indexes, index), neg_indexes)
         ELSE IF y[index] = 0
              THEN Partition(y, index + 1, pos_indexes, Append(neg_indexes, index))
              ELSE [raised |-> "InvalidLabelError", pos |-> pos_indexes,
                    neg |-> neg_indexes]

\* A faulty comparator: a tie scores 0.
compareTiesLost(a, b) == IF a > b THEN 2 ELSE 0

\* A faulty comparator: scores no more than 1 apart count as tied.
compareWithTolerance(a, b) == IF a > b + 1 THEN 2 ELSE IF b > a + 1 THEN 0 ELSE 1

\* Lines 27-33, in half units: 2 stands for 1, 1 for 0.5.
compare(a, b) == IF a > b THEN 2 ELSE IF a = b THEN 1 ELSE 0

\* Line 34, the inner sum: sum([compare(y_pred[i], y_pred[j]) for j in neg_indexes]).
RECURSIVE InnerSum(_, _, _)
InnerSum(y_pred, i, neg_indexes) ==
    IF neg_indexes = <<>> THEN 0
    ELSE compare(y_pred[i], y_pred[Head(neg_indexes)])
         + InnerSum(y_pred, i, Tail(neg_indexes))

\* Line 34, the outer sum over pos_indexes.
RECURSIVE OuterSum(_, _, _)
OuterSum(y_pred, pos_indexes, neg_indexes) ==
    IF pos_indexes = <<>> THEN 0
    ELSE InnerSum(y_pred, Head(pos_indexes), neg_indexes)
         + OuterSum(y_pred, Tail(pos_indexes), neg_indexes)

\* A faulty quotient: 0 instead of an error when there is no pair.
QuotientSilent(auc, n_pos, n_neg) ==
    IF n_pos * n_neg = 0
    THEN [raised |-> "none", value |-> <<0, 1>>]
    ELSE [raised |-> "none", value |-> Rat(auc, 2 * n_pos * n_neg)]

\* Line 36: auc / (len(pos_indexes) * len(neg_indexes)); auc is in half units.
Quotient(auc, n_pos, n_neg) ==
    IF n_pos * n_neg = 0
    THEN [raised |-> "UndefinedAUCError", value |-> <<0, 1>>]
    ELSE [raised |-> "none", value |-> Rat(auc, 2 * n_pos * n_neg)]

\* A faulty _calculate: the labels are checked while the scores are compared,
\* so the pairs found before an invalid label have been compared.
_calculateInterleaved(y, y_pred) ==
    LET p == Partition(y, 1, <<>>, <<>>)
        auc == OuterSum(y_pred, p.pos, p.neg)
        q == Quotient(auc, Len(p.pos), Len(p.neg))
    IN  IF p.raised # "none"
        THEN [raised |-> p.raised, value |-> <<0, 1>>, ncmp |-> Len(p.pos) * Len(p.neg)]
        ELSE [raised |-> q.raised, value |-> q.value, ncmp |-> Len(p.pos) * Len(p.neg)]

\* _calculate(y, y_pred) on two sequences: what it raises, the value it
\* returns, and the number of score comparisons it performed.
_calculate(y, y_pred) ==
    LET p == Partition(y, 1, <<>>, <<>>)
    IN  IF p.raised # "none"
        THEN [raised |-> p.raised, value |-> <<0, 1>>, ncmp |-> 0]
        ELSE LET auc == OuterSum(y_pred, p.pos, p.neg)
                 q == Quotient(auc, Len(p.pos), Len(p.neg))
             IN  [raised |-> q.raised, value |-> q.value,
                  ncmp |-> Len(p.pos) * Len(p.neg)]

\* ------------------------------------------------------ compute_roc_auc

\* The averages a caller can pass; "none" stands for Python's None and
\* "other" for any value the function does not know.
Averages == {"macro", "weighted", "micro", "none", "other"}

\* The frame of a call that has just been entered with the arguments a
\* (a record y_pred, y, to_onehot_y, add_softmax, add_sigmoid, average).
\* Besides the locals of the function it carries the observations the
\* properties speak about: the warnings emitted, the transforms applied,
\* the label vectors handed to _calculate and the comparisons performed.
Enter(a) ==
    [args |-> a, pc |-> "check_transforms",
     y_pred |-> a.y_pred, y |-> a.y,
     y_pred_ndim |-> 0, y_ndim |-> 0, n_classes |-> 0,
     auc_values |-> <<>>,
     warnings |-> <<>>, applied |-> <<>>, handed |-> <<>>, ncmp |-> 0,
     raised |-> "none", ret_kind |-> "none", ret |-> <<>>]

Raise(c, e) == [c EXCEPT !.pc = "done", !.raised = e]
ReturnScalar(c, v) == [c EXCEPT !.pc = "done", !.ret_kind = "scalar", !.ret = <<v>>]
ReturnList(c, l) == [c EXCEPT !.pc = "done", !.ret_kind = "list", !.ret = l]

\* A call of _calculate from compute_roc_auc, whose result is returned as is.
ReturnCalculate(c, labels, scores) ==
    LET r == _calculate(labels, scores)
        c1 == [c EXCEPT !.handed = Append(@, labels), !.ncmp = @ + r.ncmp]
    IN  IF r.raised # "none" THEN Raise(c1, r.raised) ELSE ReturnScalar(c1, r.value)

\* A faulty check: the conflict of the two transforms goes unnoticed.
CheckTransformsStepSkipped(c) == [c EXCEPT !.pc = "check_rank"]

\* Lines 67-68.
CheckTransformsStep(c) ==
    IF c.args.add_softmax /\ c.args.add_sigmoid
    THEN Raise(c, "ConflictingTransformError")
    ELSE [c EXCEPT !.pc = "check_rank"]

\* Lines 70-75.
CheckRankStep(c) ==
    LET c1 == [c EXCEPT !.y_pred_ndim = ndimension(c.y_pred),
                        !.y_ndim = ndimension(c.y)]
    IN  IF c1.y_pred_ndim \notin {1, 2} THEN Raise(c1, "ShapeError")
        ELSE IF c1.y_ndim \notin {1, 2} THEN Raise(c1, "ShapeError")
        ELSE [c1 EXCEPT !.pc = "squeeze"]

\* Lines 76-81.
SqueezeStep(c) ==
    LET c1 == IF c.y_pred_ndim = 2 /\ c.y_pred.shape[2] = 1
              THEN [c EXCEPT !.y_pred = squeeze(c.y_pred), !.y_pred_ndim = 1]
              ELSE c
        c2 == IF c1.y_ndim = 2 /\ c1.y.shape[2] = 1
              THEN [c1 EXCEPT !.y = squeeze(c1.y), !.y_ndim = 1]
              ELSE c1
    IN  [c2 EXCEPT !.pc = "sigmoid"]

\* Lines 83-84.
SigmoidStep(c) ==
    LET c1 == IF c.args.add_sigmoid
              THEN [c EXCEPT !.y_pred = sigmoid(c.y_pred),
                             !.applied = Append(@, "sigmoid")]
              ELSE c
    IN  [c1 EXCEPT !.pc = "branch"]

\* A faulty single-channel branch: elif instead of if, so add_softmax is not
\* warned about when to_onehot_y is set too.
BinaryStepOneWarning(c) ==
    LET c1 == IF c.args.to_onehot_y
              THEN [c EXCEPT !.warnings = Append(@, "to_onehot_y=True ignored")]
              ELSE IF c.args.add_softmax
                   THEN [c EXCEPT !.warnings = Append(@, "add_softmax=True ignored")]
                   ELSE c
    IN  ReturnCalculate(c1, c1.y.data, c1.y_pred.data)

\* Lines 86-91: the single-channel branch.
BinaryStep(c) ==
    LET c1 == IF c.args.to_onehot_y
              THEN [c EXCEPT !.warnings = Append(@, "to_onehot_y=True ignored")]
              ELSE c
        c2 == IF c1.args.add_softmax
              THEN [c1 EXCEPT !.warnings = Append(@, "add_softmax=True ignored")]
              ELSE c1
    IN  ReturnCalculate(c2, c2.y.data, c2.y_pred.data)

\* Lines 93-97: the multi-class branch up to the choice of the average.
PrepareStep(c) ==
    LET n == c.y_pred.shape[2]
        c1 == [c EXCEPT !.n_classes = n]
        c2 == IF c1.args.to_onehot_y
              THEN [c1 EXCEPT !.y = one_hot(c1.y, n), !.applied = Append(@, "one_hot")]
              ELSE c1
        c3 == IF c2.args.add_softmax
              THEN [c2 EXCEPT !.y_pred = softmax(c2.y_pred),
                              !.applied = Append(@, "softmax")]
              ELSE c2
    IN  [c3 EXCEPT !.pc = "average"]

\* Lines 99-102.
MicroStep(c) == ReturnCalculate(c, flat(c.y.data), flat(c.y_pred.data))

\* Line 104.
TransposeStep(c) ==
    [c EXCEPT !.y = transpose(c.y), !.y_pred = transpose(c.y_pred), !.pc = "per_class"]

\* Line 105, one element of the list comprehension: the next class.
PerClassStep(c) ==
    LET k == Len(c.auc_values) + 1
        r == _calculate(c.y.data[k], c.y_pred.data[k])
        c1 == [c EXCEPT !.handed = Append(@, c.y.data[k]), !.ncmp = @ + r.ncmp]
    IN  IF r.raised # "none" THEN Raise(c1, r.raised)
        ELSE [c1 EXCEPT !.auc_values = Append(@, r.value),
                        !.pc = IF k = Len(c.y.data) THEN "aggregate" ELSE "per_class"]

\* A faulty mean: the sum, not divided.
meanUndivided(auc_values) == RatSum(auc_values)

\* np.mean(auc_values).
mean(auc_values) == RatDiv(RatSum(auc_values), Len(auc_values))

\* Faulty weights: the length of each class column, not its positives.
WeightsOfLength(y) == [k \in DOMAIN y.data |-> Len(y.data[k])]

\* Line 111: weights = [sum(y_) for y_ in y].
Weights(y) == [k \in DOMAIN y.data |-> IntSum(y.data[k])]

\* np.average(auc_values, weights=weights), given that the weights do not
\* sum to zero.
average(auc_values, weights) ==
    RatDiv(RatSum([k \in DOMAIN auc_values |-> RatScale(auc_values[k], weights[k])]),
           IntSum(weights))

\* A faulty aggregation: an unknown average falls back to macro.
AggregateStepDefaultMacro(c) ==
    IF c.args.average = "none" THEN ReturnList(c, c.auc_values)
    ELSE IF c.args.average = "weighted"
         THEN LET weights == Weights(c.y)
              IN  IF IntSum(weights) = 0 THEN Raise(c, "ZeroWeightError")
                  ELSE ReturnScalar(c, average(c.auc_values, weights))
    ELSE ReturnScalar(c, mean(c.auc_values))

\* Lines 106-113.
AggregateStep(c) ==
    IF c.args.average = "none" THEN ReturnList(c, c.auc_values)
    ELSE IF c.args.average = "macro" THEN ReturnScalar(c, mean(c.auc_values))
    ELSE IF c.args.average = "weighted"
         THEN LET weights == Weights(c.y)
              IN  IF IntSum(weights) = 0 THEN Raise(c, "ZeroWeightError")
                  ELSE ReturnScalar(c, average(c.auc_values, weights))
    ELSE Raise(c, "UnsupportedAverageError")

\* The statement a frame executes next.
Step(c) ==
    CASE c.pc = "check_transforms" -> CheckTransformsStep(c)
      [] c.pc = "check_rank" -> CheckRankStep(c)
      [] c.pc = "squeeze" -> SqueezeStep(c)
      [] c.pc = "sigmoid" -> SigmoidStep(c)
      [] c.pc = "branch" -> IF c.y_pred_ndim = 1 THEN BinaryStep(c) ELSE PrepareStep(c)
      [] c.pc = "average" -> IF c.args.average = "micro" THEN MicroStep(c)
                             ELSE TransposeStep(c)
      [] c.pc = "per_class" -> PerClassStep(c)
      [] c.pc = "aggregate" -> AggregateStep(c)

\* A whole call: the frame in which compute_roc_auc(a) ends.
RECURSIVE Run(_)
Run(c) == IF c.pc = "done" THEN c ELSE Run(Step(c))
compute_roc_auc(a) == Run(Enter(a))

\* --------------------------------------------------------------- inputs

\* Labels: the two binary values and one that is not.
BinaryLabels == {0, 1}
LabelVals == {0, 1, 2}
\* Scores: a small one, and two past the saturation point of the float32
\* sigmoid.
ScoreVals == {0, SigmoidSaturation + 3, SigmoidSaturation + 13}
\* Scores of a multi-class call.
ClassScores == {0, 1}
Flags == [to_onehot_y : BOOLEAN, add_softmax : BOOLEAN, add_sigmoid : BOOLEAN,
          average : Averages]

Args(y_pred_, y_, f) ==
    [y_pred |-> y_pred_, y |-> y_, to_onehot_y |-> f.to_onehot_y,
     add_softmax |-> f.add_softmax, add_sigmoid |-> f.add_sigmoid,
     average |-> f.average]

\* ----------------------------------------------------------- the machine

VARIABLES args, pc, y_pred, y, y_pred_ndim, y_ndim, n_classes, auc_values,
          warnings, applied, handed, ncmp, raised, ret_kind, ret

vars == <<args, pc, y_pred, y, y_pred_ndim, y_ndim, n_classes, auc_values,
          warnings, applied, handed, ncmp, raised, ret_kind, ret>>

\* The running call as a frame.
Frame ==
    [args |-> args, pc |-> pc, y_pred |-> y_pred, y |-> y,
     y_pred_ndim |-> y_pred_ndim, y_ndim |-> y_ndim, n_classes |-> n_classes,
     auc_values |-> auc_values, warnings |-> warnings, applied |-> applied,
     handed |-> handed, ncmp |-> ncmp, raised |-> raised,
     ret_kind |-> ret_kind, ret |-> ret]

\* The variables hold the frame c.
Holds(c) ==
    /\ args = c.args /\ pc = c.pc /\ y_pred = c.y_pred /\ y = c.y
    /\ y_pred_ndim = c.y_pred_ndim /\ y_ndim = c.y_ndim /\ n_classes = c.n_classes
    /\ auc_values = c.auc_values /\ warnings = c.warnings /\ applied = c.applied
    /\ handed = c.handed /\ ncmp = c.ncmp /\ raised = c.raised
    /\ ret_kind = c.ret_kind /\ ret = c.ret

\* The call moves to the frame c.
Becomes(c) ==
    /\ args' = c.args /\ pc' = c.pc /\ y_pred' = c.y_pred /\ y' = c.y
    /\ y_pred_ndim' = c.y_pred_ndim /\ y_ndim' = c.y_ndim /\ n_classes' = c.n_classes
    /\ auc_values' = c.auc_values /\ warnings' = c.warnings /\ applied' = c.applied
    /\ handed' = c.handed /\ ncmp' = c.ncmp /\ raised' = c.raised
    /\ ret_kind' = c.ret_kind /\ ret' = c.ret

CheckTransforms == pc = "check_transforms" /\ Becomes(CheckTransformsStep(Frame))
CheckRank == pc = "check_rank" /\ Becomes(CheckRankStep(Frame))
Squeeze == pc = "squeeze" /\ Becomes(SqueezeStep(Frame))
Sigmoid == pc = "sigmoid" /\ Becomes(SigmoidStep(Frame))
Binary == pc = "branch" /\ y_pred_ndim = 1 /\ Becomes(BinaryStep(Frame))
Prepare == pc = "branch" /\ y_pred_ndim # 1 /\ Becomes(PrepareStep(Frame))
Micro == pc = "average" /\ args.average = "micro" /\ Becomes(MicroStep(Frame))
Transpose == pc = "average" /\ args.average # "micro" /\ Becomes(TransposeStep(Frame))
PerClass == pc = "per_class" /\ Becomes(PerClassStep(Frame))
Aggregate == pc = "aggregate" /\ Becomes(AggregateStep(Frame))

\* compute_roc_auc is entered with the arguments a.
Call(a) == Holds(Enter(a))

\* Single-channel calls: scores of shape (batch,) or (batch, 1), labels of
\* shape (batch,) or (batch, 1), any flags.
BinaryCalls(max_batch) ==
    \E b \in 1 .. max_batch :
      \E s \in [1 .. b -> ScoreVals], l \in [1 .. b -> LabelVals] :
        \E p \in {Tensor1(s), Column(s)}, t \in {Tensor1(l), Column(l)}, f \in Flags :
          Call(Args(p, t, f))

\* Multi-class calls: scores of shape (batch, n_classes) with at least two
\* classes; the labels are an indicator matrix of the same shape, or, with
\* to_onehot_y, class indices of shape (batch,) or (batch, 1).
MultiCalls(max_cells, labels) ==
    \E b \in 1 .. max_cells, n \in 2 .. max_cells :
      /\ b * n <= max_cells
      /\ \E s \in [1 .. b -> [1 .. n -> ClassScores]], f \in Flags :
           IF f.to_onehot_y
           THEN \E l \in [1 .. b -> 0 .. n - 1] :
                  \E t \in {Tensor1(l), Column(l)} : Call(Args(Tensor2(s, n), t, f))
           ELSE \E l \in [1 .. b -> [1 .. n -> labels]] :
                  Call(Args(Tensor2(s, n), Tensor2(l, n), f))

\* Calls whose scores or labels have a rank the function rejects.
BadRankCalls ==
    \E p \in {Rank3, Tensor1(<<0, 1>>)}, t \in {Rank3, Tensor1(<<0, 1>>)}, f \in Flags :
      Rank3 \in {p, t} /\ Call(Args(p, t, f))

\* The example of the specification: labels [0,0,1,1], scores
\* [0.1,0.4,0.35,0.8], as integers in the same order.
ExampleCall ==
    \E f \in Flags : Call(Args(Tensor1(<<1, 4, 3, 8>>), Tensor1(<<0, 0, 1, 1>>), f))

Init == BinaryCalls(SmallBatch) \/ MultiCalls(SmallCells, LabelVals) \/ BadRankCalls

Next ==
    \/ CheckTransforms
    \/ CheckRank
    \/ Squeeze
    \/ Sigmoid
    \/ Binary
    \/ Prepare
    \/ Micro
    \/ Transpose
    \/ PerClass
    \/ Aggregate

Spec == Init /\ [][Next]_vars

\* The single-channel calls alone, with larger batches.
InitBinary == BinaryCalls(MaxBatch) \/ ExampleCall \/ BadRankCalls

NextBinary ==
    \/ CheckTransforms
    \/ CheckRank
    \/ Squeeze
    \/ Sigmoid
    \/ Binary

SpecBinary == InitBinary /\ [][NextBinary]_vars

\* The multi-class calls alone, with larger matrices.
InitMulti == MultiCalls(MaxCells, BinaryLabels) \/ MultiCalls(SmallCells, LabelVals)

NextMulti ==
    \/ CheckTransforms
    \/ CheckRank
    \/ Squeeze
    \/ Sigmoid
    \/ Prepare
    \/ Micro
    \/ Transpose
    \/ PerClass
    \/ Aggregate

SpecMulti == InitMulti /\ [][NextMulti]_vars

\* ----------------------------------------------------------- vocabulary

Done == pc = "done"
Conflicting == args.add_softmax /\ args.add_sigmoid
RanksValid == ndimension(args.y_pred) \in {1, 2} /\ ndimension(args.y) \in {1, 2}
\* The call takes the single-channel branch, or the multi-class one.
SingleChannel ==
    RanksValid /\ (ndimension(args.y_pred) = 1 \/ args.y_pred.shape[2] = 1)
MultiClass == RanksValid /\ ndimension(args.y_pred) = 2 /\ args.y_pred.shape[2] > 1

\* What a finished frame hands back to the caller.
Outcome(c) == <<c.raised, c.ret_kind, c.ret>>
Current == <<raised, ret_kind, ret>>

\* The positive and the negative indexes of a label vector, as sets.
PosSet(l) == {i \in DOMAIN l : l[i] = 1}
NegSet(l) == {i \in DOMAIN l : l[i] = 0}
AllBinary(l) == \A i \in DOMAIN l : l[i] \in {0, 1}
Separable(l) == AllBinary(l) /\ PosSet(l) # {} /\ NegSet(l) # {}
Pairs(l) == Cardinality(PosSet(l)) * Cardinality(NegSet(l))

\* Twice the pairwise statistic: 2 per (positive, negative) pair whose
\* positive scores higher, 1 per pair that ties.
Wins2(l, s) ==
    2 * Cardinality({q \in PosSet(l) \X NegSet(l) : s[q[1]] > s[q[2]]})
      + Cardinality({q \in PosSet(l) \X NegSet(l) : s[q[1]] = s[q[2]]})

\* The fraction a equals n / d.
IsFraction(a, n, d) == a[1] * d = n * a[2]

\* The vector held by a tensor of shape (batch,) or (batch, 1).
VectorOf(t) ==
    IF ndimension(t) = 1 THEN t.data ELSE [i \in 1 .. t.shape[1] |-> t.data[i][1]]
\* Class column k of a (batch, n_classes) tensor.
ColumnOf(t, k) == [r \in 1 .. t.shape[1] |-> t.data[r][k]]

\* The scores the comparisons see and the labels the partition sees, from the
\* arguments of a multi-class call.
SeenScores(a) ==
    IF a.add_sigmoid THEN sigmoid(a.y_pred)
    ELSE IF a.add_softmax THEN softmax(a.y_pred) ELSE a.y_pred
SeenLabels(a) ==
    IF a.to_onehot_y THEN one_hot(a.y, a.y_pred.shape[2]) ELSE a.y
ClassesOf(a) == 1 .. a.y_pred.shape[2]
EveryClassSeparable(a) ==
    \A k \in ClassesOf(a) : Separable(ColumnOf(SeenLabels(a), k))

\* ------------------------------------------------------------------ C1

\* C1: on a single-channel call without sigmoid whose labels are binary with
\* at least one positive and one negative, the value returned is exactly
\* (pairs the positive wins + half the tied pairs) / (|pos| * |neg|); the
\* example labels [0,0,1,1], scores [0.1,0.4,0.35,0.8] gives 3/4.
C1_PairwiseAUC ==
    (Done /\ SingleChannel /\ ~Conflicting /\ ~args.add_sigmoid
       /\ Separable(VectorOf(args.y)))
    => LET l == VectorOf(args.y)
           s == VectorOf(args.y_pred)
       IN  /\ raised = "none" /\ ret_kind = "scalar" /\ Len(ret) = 1
           /\ IsFraction(ret[1], Wins2(l, s), 2 * Pairs(l))
           /\ (l = <<0, 0, 1, 1>> /\ s = <<1, 4, 3, 8>> => ret[1] = <<3, 4>>)

C1_Witness ==
    /\ Done /\ args.y = Tensor1(<<0, 0, 1, 1>>) /\ args.y_pred = Tensor1(<<1, 4, 3, 8>>)
    /\ ~args.to_onehot_y /\ ~args.add_softmax /\ ~args.add_sigmoid
    /\ ret = << <<3, 4>> >>

\* ------------------------------------------------------------------ C2

\* C2 as stated: a label vector handed to _calculate with no positive or no
\* negative label ends the call in UndefinedAUCError, with no value.
C2_Original ==
    (Done /\ \E k \in DOMAIN handed : PosSet(handed[k]) = {} \/ NegSet(handed[k]) = {})
    => raised = "UndefinedAUCError" /\ ret_kind = "none"

\* C2 amended: such a call never returns a value; it ends in
\* UndefinedAUCError when the vector's labels are all binary and in
\* InvalidLabelError when one of them is not.
C2_Undefined ==
    \A k \in DOMAIN handed :
      (Done /\ (PosSet(handed[k]) = {} \/ NegSet(handed[k]) = {}))
      => /\ ret_kind = "none" /\ ret = <<>>
         /\ k = Len(handed)
         /\ raised = IF AllBinary(handed[k]) THEN "UndefinedAUCError"
                     ELSE "InvalidLabelError"

C2_Witness ==
    /\ Done /\ raised = "UndefinedAUCError" /\ Len(handed) = 2
    /\ AllBinary(handed[2]) /\ PosSet(handed[2]) = {} /\ ret_kind = "none"

\* ------------------------------------------------------------------ C3

ValidationErrors ==
    {"ConflictingTransformError", "ShapeError", "InvalidLabelError",
     "UnsupportedAverageError"}

\* C3 as stated: a call that raises a validation error has performed no
\* score comparison.
C3_Original == raised \in ValidationErrors => ncmp = 0

\* The comparisons of the first n label vectors handed to _calculate.
RECURSIVE PairsUpTo(_)
PairsUpTo(n) == IF n = 0 THEN 0 ELSE Pairs(handed[n]) + PairsUpTo(n - 1)

\* C3 amended: the transform and rank checks precede every comparison, and
\* each binary AUC computation checks all of its own labels before its first
\* comparison; on the per-class path an invalid label of a later class and an
\* unsupported average are raised after the comparisons of the classes before.
C3_ValidationOrder ==
    /\ raised \in {"ConflictingTransformError", "ShapeError"}
         => ncmp = 0 /\ handed = <<>>
    /\ raised = "InvalidLabelError"
         => handed # <<>> /\ ncmp = PairsUpTo(Len(handed) - 1)
    /\ raised = "UnsupportedAverageError"
         => Len(handed) = n_classes /\ ncmp = PairsUpTo(n_classes) /\ ncmp > 0

C3_Witness ==
    /\ Done /\ raised = "InvalidLabelError" /\ Len(handed) = 2 /\ ncmp > 0

\* ------------------------------------------------------------------ C4

\* C4 as stated: every call with an unrecognised average fails with
\* UnsupportedAverageError (read here with the benefit of the doubt: among
\* the calls that nothing else makes fail).
C4_Original ==
    (Done /\ args.average = "other" /\ ~Conflicting /\ RanksValid
       /\ \A k \in DOMAIN handed : Separable(handed[k]))
    => raised = "UnsupportedAverageError"

\* C4 amended: a call with an unrecognised average fails with
\* UnsupportedAverageError exactly when it is a multi-class call without
\* conflicting transforms whose every class column computes (binary labels,
\* a positive and a negative); a single-channel call ignores the average.
C4_UnsupportedAverage ==
    (Done /\ args.average = "other")
    => /\ raised = "UnsupportedAverageError"
            <=> (MultiClass /\ ~Conflicting /\ EveryClassSeparable(args))
       /\ raised = "UnsupportedAverageError" => ret_kind = "none"
       /\ (SingleChannel /\ ~Conflicting)
            => Current = Outcome(compute_roc_auc([args EXCEPT !.average = "macro"]))

C4_Witness ==
    /\ Done /\ raised = "UnsupportedAverageError" /\ args.average = "other"
    /\ MultiClass /\ Len(auc_values) = n_classes

\* ------------------------------------------------------------------ C5

\* C5: if a label vector handed to _calculate holds a value outside {0,1},
\* wherever it sits, the call fails with InvalidLabelError and returns no
\* value: on the single-channel path, on a class column and on the flattened
\* micro vector.
C5_InvalidLabel ==
    (Done /\ \E k \in DOMAIN handed : ~AllBinary(handed[k]))
    => raised = "InvalidLabelError" /\ ret_kind = "none" /\ ret = <<>>

C5_Witness ==
    /\ Done /\ raised = "InvalidLabelError" /\ args.average = "micro" /\ MultiClass
    /\ Len(handed) = 1 /\ Len(handed[1]) = 4
    /\ handed[1][1] = 1 /\ handed[1][2] = 0 /\ handed[1][4] = 2

\* ------------------------------------------------------------------ C6

\* The product of the denominators 2 * |pos| * |neg| of the classes 1 .. n.
RECURSIVE Denominators(_, _)
Denominators(a, n) ==
    IF n = 0 THEN 1
    ELSE 2 * Pairs(ColumnOf(SeenLabels(a), n)) * Denominators(a, n - 1)

\* The sum over the classes 1 .. n of auc_k * weight_k, as a numerator over
\* Denominators(a, all classes); weight_k is given by w.
RECURSIVE WeightedWins(_, _, _, _)
WeightedWins(a, n, d, w) ==
    IF n = 0 THEN 0
    ELSE LET l == ColumnOf(SeenLabels(a), n)
             s == ColumnOf(SeenScores(a), n)
         IN  Wins2(l, s) * w[n] * (d \div (2 * Pairs(l))) + WeightedWins(a, n - 1, d, w)

PositiveCounts(a) ==
    [k \in ClassesOf(a) |-> Cardinality(PosSet(ColumnOf(SeenLabels(a), k)))]
RECURSIVE Total(_, _)
Total(w, n) == IF n = 0 THEN 0 ELSE w[n] + Total(w, n - 1)

\* C6: on a multi-class call with average=weighted whose every class column
\* has a positive and a negative, the value returned is the sum of
\* auc_k * positive_count_k over the sum of positive_count_k; the divisor is
\* never zero when the weighted branch is reached.
C6_Weighted ==
    /\ raised # "ZeroWeightError"
    /\ (pc = "aggregate" /\ args.average = "weighted") => IntSum(Weights(y)) > 0
    /\ (Done /\ MultiClass /\ ~Conflicting /\ args.average = "weighted"
          /\ EveryClassSeparable(args))
       => LET n == args.y_pred.shape[2]
              w == PositiveCounts(args)
              d == Denominators(args, n)
          IN  /\ raised = "none" /\ ret_kind = "scalar" /\ Len(ret) = 1
              /\ Total(w, n) > 0
              /\ IsFraction(ret[1], WeightedWins(args, n, d, w), d * Total(w, n))

C6_Witness ==
    /\ Done /\ args.average = "weighted" /\ raised = "none" /\ n_classes = 2
    /\ ~args.to_onehot_y /\ ~args.add_softmax /\ ~args.add_sigmoid
    /\ PositiveCounts(args) = <<2, 1>>
    /\ auc_values = << <<1, 1>>, <<1, 2>> >>
    /\ ret = << <<5, 6>> >>

\* ------------------------------------------------------------------ C7

Ones(a) == [k \in ClassesOf(a) |-> 1]

\* C7: on a multi-class call, average=none returns one entry per class, in
\* class order, each the binary AUC of its class column; average=macro on
\* the same arguments returns the arithmetic mean of that list, and fails
\* exactly when (and as) average=none fails.
C7_NoneAndMacro ==
    (Done /\ MultiClass /\ args.average = "none")
    => LET m == compute_roc_auc([args EXCEPT !.average = "macro"])
           n == args.y_pred.shape[2]
       IN  /\ m.raised = raised
           /\ raised = "none"
              => /\ ret_kind = "list" /\ Len(ret) = n
                 /\ \A k \in 1 .. n :
                      LET l == ColumnOf(SeenLabels(args), k)
                          s == ColumnOf(SeenScores(args), k)
                      IN  Separable(l) /\ IsFraction(ret[k], Wins2(l, s), 2 * Pairs(l))
                 /\ m.ret_kind = "scalar" /\ Len(m.ret) = 1
                 /\ LET d == Denominators(args, n)
                    IN  IsFraction(m.ret[1], WeightedWins(args, n, d, Ones(args)), d * n)

C7_Witness ==
    /\ Done /\ MultiClass /\ args.average = "none" /\ ret_kind = "list"
    /\ ret = << <<0, 1>>, <<1, 2>>, <<1, 1>> >>
    /\ compute_roc_auc([args EXCEPT !.average = "macro"]).ret = << <<1, 2>> >>

\* ------------------------------------------------------------------ C8

\* Strictly increasing maps of the scores of the model into new scores.
ScoreDomain == ScoreVals \cup ClassScores
ScoreRange == {0, 1, 2, 3, SigmoidSaturation + 23}
IncreasingMaps ==
    {f \in [ScoreDomain -> ScoreRange] :
        \A u, v \in ScoreDomain : u < v => f[u] < f[v]}

\* The arguments a with f applied to every score.
MapScores(a, f) ==
    [a EXCEPT !.y_pred.data =
        IF ndimension(a.y_pred) = 1
        THEN [i \in DOMAIN a.y_pred.data |-> f[a.y_pred.data[i]]]
        ELSE [r \in DOMAIN a.y_pred.data |->
                 [c \in DOMAIN a.y_pred.data[r] |-> f[a.y_pred.data[r][c]]]]]

ScoresOf(a) ==
    IF ndimension(a.y_pred) = 1
    THEN {a.y_pred.data[i] : i \in DOMAIN a.y_pred.data}
    ELSE UNION {{a.y_pred.data[r][c] : c \in DOMAIN a.y_pred.data[r]} :
                r \in DOMAIN a.y_pred.data}

WithSigmoid(a, on) == [a EXCEPT !.add_sigmoid = on]

C9_Conflicting ==
    (Conflicting /\ pc # "check_transforms")
    => /\ Done /\ raised = "ConflictingTransformError" /\ ret_kind = "none"
       /\ applied = <<>> /\ warnings = <<>> /\ handed = <<>> /\ ncmp = 0
       /\ y_pred = args.y_pred /\ y = args.y

C9_Witness ==
    /\ Done /\ raised = "ConflictingTransformError"
    /\ args.y_pred = Rank3 /\ args.average = "other"

\* ----------------------------------------------------------------- C10

IgnoredWarnings ==
    (IF args.to_onehot_y THEN <<"to_onehot_y=True ignored">> ELSE <<>>)
    \o (IF args.add_softmax THEN <<"add_softmax=True ignored">> ELSE <<>>)

\* C10: on a single-channel call (scores of shape (batch,) or (batch, 1))
\* without conflicting transforms, to_onehot_y and add_softmax are ignored:
\* one warning per flag set, neither one-hot encoding nor softmax applied,
\* and the same value or error as the call with both flags unset, which is
\* the binary AUC of the scores (after sigmoid, if requested).
C10_IgnoredFlags ==
    (Done /\ SingleChannel /\ ~Conflicting)
    => LET plain == compute_roc_auc([args EXCEPT !.to_onehot_y = FALSE,
                                                 !.add_softmax = FALSE])
           l == VectorOf(args.y)
           s == VectorOf(IF args.add_sigmoid THEN sigmoid(args.y_pred) ELSE args.y_pred)
       IN  /\ warnings = IgnoredWarnings
           /\ plain.warnings = <<>>
           /\ applied = IF args.add_sigmoid THEN <<"sigmoid">> ELSE <<>>
           /\ Current = Outcome(plain)
           /\ Separable(l)
                => raised = "none" /\ IsFraction(ret[1], Wins2(l, s), 2 * Pairs(l))

C10_Witness ==
    /\ Done /\ args.to_onehot_y /\ args.add_softmax /\ ~args.add_sigmoid
    /\ args.y_pred.shape = <<3, 1>>
    /\ Len(warnings) = 2 /\ raised = "none" /\ ret = << <<1, 4>> >>
====
